---- MODULE Spec2Model ----
(***************************************************************************)
(* CubeSter (src/cubester.py): one invocation of CSGenerateMesh.execute,   *)
(* stage by stage, over the scene properties and the selected image.       *)
(*                                                                         *)
(* Numbers.  Python floats and ints are modelled as exact rationals        *)
(* [n |-> numerator, d |-> denominator], d > 0, in lowest terms, so that   *)
(* halving, averaging and the height factor are computed and not assumed.  *)
(* A height cell is a rational before the layer stage and a record         *)
(* [z |-> baseZ, h |-> height] (the tuple (z, height)) after it.           *)
(* Python lists are sequences; the code's 0-based indices are kept in the  *)
(* computations and shifted by one where a sequence is indexed.            *)
(***************************************************************************)
EXTENDS Integers, Sequences, FiniteSets, TLC

\* ---------------------------------------------------------------- bounds
\* Largest pixel buffer of a source image: width * height * channels.
MaxPixels == 4
\* Largest layer offset (props.layer_offset), in whole units.
MaxOffset == 1
\* Longest image sequence, and most layers of random data (which holds no more
\* than MaxPixels values).
MaxFrames == 2
\* Widest image of a session of repeated invocations (one pixel row, one channel).
MaxWidth == 2
\* An image has at most RGBA channels: padding = [0] * (4 - channels).
RGBA == 4
\* props.max_freq, the default of the property
MaxFreq == 20000

\* ------------------------------------------------------------- rationals
RECURSIVE GCD(_, _)
GCD(a, b) == IF b = 0 THEN a ELSE GCD(b, a % b)

Abs(a) == IF a < 0 THEN -a ELSE a

Rat(n, d) ==
    LET g == GCD(Abs(n), Abs(d))
        s == IF d < 0 THEN -1 ELSE 1
    IN  [n |-> (s * n) \div g, d |-> (s * d) \div g]

RInt(k) == [n |-> k, d |-> 1]
Zero == RInt(0)
One == RInt(1)
RAdd(x, y) == Rat(x.n * y.d + y.n * x.d, x.d * y.d)
RSub(x, y) == Rat(x.n * y.d - y.n * x.d, x.d * y.d)
RMul(x, y) == Rat(x.n * y.n, x.d * y.d)
\* x / y; the callers guard y # 0 (Python raises ZeroDivisionError there)
RDiv(x, y) == Rat(x.n * y.d, x.d * y.n)
RLe(x, y) == x.n * y.d <= y.n * x.d
RLt(x, y) == x.n * y.d < y.n * x.d

\* ----------------------------------------------------------- field tools
IsPair(cell) == "z" \in DOMAIN cell
\* the height of a cell, in either representation
HeightOf(cell) == IF IsPair(cell) THEN cell.h ELSE cell

RECURSIVE SumSeq(_)
SumSeq(s) == IF s = <<>> THEN Zero ELSE RAdd(s[1], SumSeq(Tail(s)))

\* ------------------------------------------------------------- the image
\* bpy.types.Image as collect_image_data reads it: name, size, channels,
\* pixels (a flat buffer of width * height * channels floats in [0, 1]).
PixelLevels == {Zero, One}

Shapes ==
    {s \in (1..MaxPixels) \X (1..MaxPixels) \X (1..RGBA) :
        s[1] * s[2] * s[3] <= MaxPixels}

Images ==
    UNION {
        {[name |-> "image", width |-> s[1], height |-> s[2], channels |-> s[3],
          pixels |-> p] : p \in [1..(s[1] * s[2] * s[3]) -> PixelLevels]}
        : s \in Shapes}

\* ---------------------------------------------------- collect_image_data
\* r += row_step / c += col_step, run exactly `count` times from 0:
\* the source index of the k-th (0-based) sampled row or column.
StepIndexCeil(size, count, k) == k * ((size + count - 1) \div count)
StepIndex(size, count, k) == k * (size \div count)

\* for _ in range(rows) / range(columns): the number of samples taken
SampleCountStepped(size, count) ==
    LET step == size \div count
    IN  IF step = 0 THEN count ELSE (size + step - 1) \div step
SampleCount(size, count) == count

\* pos = (((r * width) + c) * channels) + layer_i
SamplePos(image, r, c, layer_i) ==
    (((r * image.width) + c) * image.channels) + layer_i

\* every index of pixels one sample reads
SampleReads(image, pos, multiple_layers) ==
    IF multiple_layers THEN {pos} ELSE pos..(pos + image.channels - 1)

\* pos is never negative, so Python's wrap-around of negative indices is not needed
InBuffer(pixels, i) == i >= 0 /\ i < Len(pixels)

\* color[:channels] + padding
PadColor(color, channels) == color \o [i \in 1..(RGBA - channels) |-> Zero]

\* one sample: [color, height]
Sample(image, pixels, pos, layer_i, multiple_layers) ==
    IF multiple_layers
    THEN [height |-> pixels[pos + 1],
          color |-> PadColor([i \in 1..image.channels |->
                                 IF i = layer_i + 1 THEN pixels[pos + 1] ELSE Zero],
                             image.channels)]
    ELSE [height |-> SumSeq(SubSeq(pixels, pos + 1, pos + image.channels)),
          color |-> PadColor(SubSeq(pixels, pos + 1, pos + image.channels),
                             image.channels)]

\* [err, colors, heights] of collect_image_data on the pixel buffer
collect_image_data(image, pixels, rows, columns, multiple_layers) ==
    LET layer_count == IF multiple_layers THEN image.channels ELSE 1
        nr == SampleCount(image.height, rows)
        nc == SampleCount(image.width, columns)
        pos(l, i, j) == SamplePos(image, StepIndex(image.height, rows, i - 1),
                                  StepIndex(image.width, columns, j - 1), l - 1)
        bad == \E l \in 1..layer_count, i \in 1..nr, j \in 1..nc :
                  \E q \in SampleReads(image, pos(l, i, j), multiple_layers) :
                      ~InBuffer(pixels, q)
        cell(l, i, j) == Sample(image, pixels, pos(l, i, j), l - 1, multiple_layers)
    IN  IF bad
        THEN [err |-> "IndexError", colors |-> <<>>, heights |-> <<>>]
        ELSE [err |-> "none",
              colors |-> [l \in 1..layer_count |-> [i \in 1..nr |->
                            [j \in 1..nc |-> cell(l, i, j).color]]],
              heights |-> [l \in 1..layer_count |-> [i \in 1..nr |->
                            [j \in 1..nc |-> cell(l, i, j).height]]]]

\* ------------------------------------------------------ create_random_data
\* uniform(0, 1) per cell: any level of the model
RandomFields(rows, columns, layer_count) ==
    [1..layer_count -> [1..rows -> [1..columns -> PixelLevels]]]

\* ------------------------------------------------------ invert_all_heights
\* new_height = max_value - height_layers[l][r][c]
InvertFlipped(max_value, height) == RSub(height, max_value)
InvertValue(max_value, height) == RSub(max_value, height)

\* one frame's height layers, l over all layers, r and c over dims
InvertLayers(height_layers, max_value, rows, cols) ==
    [l \in 1..Len(height_layers) |-> [r \in 1..Len(height_layers[l]) |->
        [c \in 1..Len(height_layers[l][r]) |->
            IF r <= rows /\ c <= cols
            THEN InvertValue(max_value, height_layers[l][r][c])
            ELSE height_layers[l][r][c]]]]

\* [err, frames]; a layer smaller than dims is indexed past its end
invert_all_heights(frames, max_value, rows, cols) ==
    IF \E f \in 1..Len(frames) : \E l \in 1..Len(frames[f].heights) :
          \/ Len(frames[f].heights[l]) < rows
          \/ \E r \in 1..rows : Len(frames[f].heights[l][r]) < cols
    THEN [err |-> "IndexError", frames |-> frames]
    ELSE [err |-> "none",
          frames |-> [f \in 1..Len(frames) |->
              [frames[f] EXCEPT !.heights = InvertLayers(@, max_value, rows, cols)]]]

\* ------------------------------------------ generate_stacked_layer_heights
\* z += height + layer_offset
ZNextStackedNoOffset(z, height, layer_offset) == RAdd(z, height)
ZNextStacked(z, height, layer_offset) == RAdd(RAdd(z, height), layer_offset)

RECURSIVE StackedZ(_, _, _, _, _)
StackedZ(height_layers, layer_offset, l, r, c) ==
    IF l = 1 THEN Zero
    ELSE ZNextStacked(StackedZ(height_layers, layer_offset, l - 1, r, c),
                      height_layers[l - 1][r][c], layer_offset)

\* [err, heights]; height_layers[0] of an empty list raises IndexError
generate_stacked_layer_heights(height_layers, layer_offset) ==
    IF Len(height_layers) = 0
    THEN [err |-> "IndexError", heights |-> height_layers]
    ELSE [err |-> "none",
          heights |-> [l \in 1..Len(height_layers) |->
              [r \in 1..Len(height_layers[1]) |->
                  [c \in 1..Len(height_layers[1][1]) |->
                      [z |-> StackedZ(height_layers, layer_offset, l, r, c),
                       h |-> height_layers[l][r][c]]]]]]

\* ------------------------------------------------------ get_min_max_height
RECURSIVE Concat(_)
Concat(ss) == IF ss = <<>> THEN <<>> ELSE ss[1] \o Concat(Tail(ss))

MinMaxStep(acc, height) ==
    IF RLt(acc.max, height) THEN [acc EXCEPT !.max = height]
    ELSE IF RLt(height, acc.min) THEN [acc EXCEPT !.min = height]
    ELSE acc

RECURSIVE MinMaxFold(_, _)
MinMaxFold(acc, heights) ==
    IF heights = <<>> THEN acc
    ELSE MinMaxFold(MinMaxStep(acc, heights[1]), Tail(heights))

\* [min, max] of a layer of scalar heights
get_min_max_height(layer) ==
    MinMaxFold([min |-> layer[1][1], max |-> layer[1][1]], Concat(layer))

\* ----------------------------------------- generate_distinct_layer_heights
\* z += _max + layer_offset
ZNextDistinctFromPrevious(z, max, layer_offset) == RAdd(max, layer_offset)
ZNextDistinct(z, max, layer_offset) == RAdd(RAdd(z, max), layer_offset)

RECURSIVE DistinctZ(_, _, _)
DistinctZ(height_layers, layer_offset, l) ==
    IF l = 1 THEN Zero
    ELSE ZNextDistinct(DistinctZ(height_layers, layer_offset, l - 1),
                       get_min_max_height(height_layers[l - 1]).max, layer_offset)

\* [err, heights]; an empty list is looped over zero times
generate_distinct_layer_heights(height_layers, layer_offset) ==
    [err |-> "none",
     heights |-> [l \in 1..Len(height_layers) |->
         [r \in 1..Len(height_layers[l]) |->
             [c \in 1..Len(height_layers[l][1]) |->
                 [z |-> DistinctZ(height_layers, layer_offset, l),
                  h |-> height_layers[l][r][c]]]]]]

\* ------------------------------------------------------------- centering
Half(x) == RDiv(x, RInt(2))

\* total / (len(layer) * len(layer[0])), total the sum of z + height/2
get_average_height_of_middle(layer) ==
    RDiv(SumSeq([i \in 1..Len(Concat(layer)) |->
                    RAdd(Concat(layer)[i].z, Half(Concat(layer)[i].h))]),
         RInt(Len(layer) * Len(layer[1])))

\* layer[r][c] = (middle - h/2, h)
CenteredCellNoHalf(middle, cell) == [z |-> RSub(middle, cell.h), h |-> cell.h]
CenteredCell(middle, cell) == [z |-> RSub(middle, Half(cell.h)), h |-> cell.h]

center_layer_heights_by_layer(height_layers) ==
    [l \in 1..Len(height_layers) |->
        [r \in 1..Len(height_layers[l]) |->
            [c \in 1..Len(height_layers[l][1]) |->
                CenteredCell(get_average_height_of_middle(height_layers[l]),
                             height_layers[l][r][c])]]]

\* highest = sum(height_layers[-1][r][c]); shift = highest / 2
PillarShiftWhole(top) == RAdd(top.z, top.h)
PillarShift(top) == Half(RAdd(top.z, top.h))

\* height_layers[l][r][c] = (z - shift, h)
center_layer_heights_overall(height_layers) ==
    [l \in 1..Len(height_layers) |->
        [r \in 1..Len(height_layers[1]) |->
            [c \in 1..Len(height_layers[1][1]) |->
                [z |-> RSub(height_layers[l][r][c].z,
                            PillarShift(height_layers[Len(height_layers)][r][c])),
                 h |-> height_layers[l][r][c].h]]]]

\* -------------------------------------------------- generate_linear_colors
\* list((slope * h) + min_vec), slope = (max_vec - min_vec) / (max_height - min_height);
\* mathutils defines Vector * number, and raises TypeError for Vector * tuple
LinearColor(h, min_color, max_color, min_height, max_height) ==
    [i \in 1..RGBA |->
        RAdd(RMul(RDiv(RSub(max_color[i], min_color[i]),
                       RSub(max_height, min_height)), h),
             min_color[i])]

\* [err, colors]
generate_linear_colors(layers, rows, cols, height_layers, min_color, max_color, min_height, max_height) ==
    IF min_height = max_height
    THEN [err |-> "ZeroDivisionError", colors |-> <<>>]
    ELSE IF \E l \in 1..layers : \/ Len(height_layers) < l
                                 \/ Len(height_layers[l]) < rows
                                 \/ \E r \in 1..rows : Len(height_layers[l][r]) < cols
    THEN [err |-> "IndexError", colors |-> <<>>]
    ELSE IF \E l \in 1..layers, r \in 1..rows, c \in 1..cols :
                IsPair(height_layers[l][r][c])
    THEN [err |-> "TypeError", colors |-> <<>>]
    ELSE [err |-> "none",
          colors |-> [l \in 1..layers |-> [r \in 1..rows |-> [c \in 1..cols |->
              LinearColor(height_layers[l][r][c], min_color, max_color,
                          min_height, max_height)]]]]

\* --------------------------------------------------- create_block_geometry
\* the 8 vertices of one block: bottom 4 at bz, top 4 at bz + height
BlockVerts(x, y, cell, height_factor, xy) ==
    LET lo == RMul(cell.z, height_factor)
        hi == RMul(RAdd(cell.z, cell.h), height_factor)
        ring(z) == << <<x, y, z>>, <<x, RAdd(y, xy), z>>,
                      <<RAdd(x, xy), RAdd(y, xy), z>>, <<RAdd(x, xy), y, z>> >>
    IN  ring(lo) \o ring(hi)

\* the 6 faces of the block whose first vertex is p
BlockFacesShared(p) ==
    << <<p, p+1, p+2, p+3>>, <<p+4, p+7, p+6, p+5>>, <<p, p+4, p+5, p+1>>,
       <<p, p+3, p+7, p+4>>, <<p+3, p+2, p+6, p+7>>, <<p+1, p+5, p+6, p+8>> >>
BlockFaces(p) ==
    << <<p, p+1, p+2, p+3>>, <<p+4, p+7, p+6, p+5>>, <<p, p+4, p+5, p+1>>,
       <<p, p+3, p+7, p+4>>, <<p+3, p+2, p+6, p+7>>, <<p+1, p+5, p+6, p+2>> >>

\* p += 8, once per block
BlockStride == 8

\* sx = -((cols*xy) + ((cols - 1)*spacing)) / 2, and sy likewise for rows
GridStart(count, xy, spacing) ==
    RSub(Zero, Half(RAdd(RMul(RInt(count), xy), RMul(RInt(count - 1), spacing))))

\* x += xy + spacing, k times from the start
GridCoord(start, k, xy, spacing) == RAdd(start, RMul(RInt(k), RAdd(xy, spacing)))

\* [verts, faces]: per layer, 8 vertices per cell of the layer in row then column
\* order, then rows * cols blocks of faces (rows, cols taken from dims)
create_block_geometry(height_layers, height_factor, xy, spacing, rows, cols) ==
    LET sx == GridStart(cols, xy, spacing)
        sy == GridStart(rows, xy, spacing)
        rowVerts(l, r) ==
            Concat([c \in 1..Len(height_layers[l][r]) |->
                BlockVerts(GridCoord(sx, c - 1, xy, spacing),
                           GridCoord(sy, r - 1, xy, spacing),
                           height_layers[l][r][c], height_factor, xy)])
        layerVerts(l) == Concat([r \in 1..Len(height_layers[l]) |-> rowVerts(l, r)])
        layerFaces(l) ==
            Concat([k \in 1..(rows * cols) |->
                BlockFaces(BlockStride * ((l - 1) * rows * cols + (k - 1)))])
    IN  [verts |-> Concat([l \in 1..Len(height_layers) |-> layerVerts(l)]),
         faces |-> Concat([l \in 1..Len(height_layers) |-> layerFaces(l)])]

\* build_bmesh and bm.to_mesh: the mesh has one loop (face corner) per vertex of
\* each face, and vertex_color_add gives one colour entry per loop, not yet
\* written by color_vertex_layer (run = -1)
White == <<One, One, One, One>>
NewVertexLayer(faces) == [i \in 1..(4 * Len(faces)) |-> [color |-> White, run |-> -1]]

\* ------------------------------------------------------ color_vertex_layer
\* the cell of the k-th (0-based) run: layers outer, then rows, then columns
CellOfRunColumnMajor(k, rows, cols) ==
    [l |-> k \div (rows * cols), r |-> k % rows, c |-> (k % (rows * cols)) \div rows]
CellOfRun(k, rows, cols) ==
    [l |-> k \div (rows * cols), r |-> (k % (rows * cols)) \div cols, c |-> k % cols]

\* [err, vertex_layer]: entry i (0-based) is written in run i \div steps; the
\* writes before the first index out of range stay written
color_vertex_layer(vertex_layer, color_layers, rows, cols, steps) ==
    LET total == IF rows < 1 \/ cols < 1 \/ steps < 1 THEN 0
                 ELSE Len(color_layers) * rows * cols * steps
        cellOf(i) == CellOfRun(i \div steps, rows, cols)
        ok(i) == /\ i < Len(vertex_layer)
                 /\ Len(color_layers[cellOf(i).l + 1]) > cellOf(i).r
                 /\ Len(color_layers[cellOf(i).l + 1][cellOf(i).r + 1]) > cellOf(i).c
        bad == {i \in 0..(total - 1) : ~ok(i)}
        done == IF bad = {} THEN total
                ELSE CHOOSE i \in bad : \A j \in bad : i <= j
    IN  [err |-> IF bad = {} THEN "none" ELSE "IndexError",
         vertex_layer |-> [i \in 1..Len(vertex_layer) |->
             IF i - 1 < done
             THEN [color |-> color_layers[cellOf(i - 1).l + 1][cellOf(i - 1).r + 1]
                                         [cellOf(i - 1).c + 1],
                   run |-> (i - 1) \div steps]
             ELSE vertex_layer[i]]]

\* ------------------------------------------------------------- the state
VARIABLES
    props,          \* context.scene.cs_properties, as execute reads it
    CACHE,          \* image name -> decoded pixel buffer
    decoded,        \* the image names decoded (list(image.pixels)), in order
    frames,         \* execute's frames: a list of [colors, heights]
    verts,          \* the vertices handed to build_bmesh
    faces,          \* the faces handed to build_bmesh
    vertex_layer,   \* context.object.data.vertex_colors[0].data
    pc,             \* the stage execute is about to run
    err             \* the exception that ended execute, or "none"

vars == <<props, CACHE, decoded, frames, verts, faces, vertex_layer, pc, err>>

\* defaults of linear_min_color and linear_max_color
linear_min_color == <<Zero, Zero, Zero, One>>
linear_max_color == <<One, One, One, One>>

\* a second image of the same size for an image sequence
Complement(image) ==
    [image EXCEPT !.name = "image.001",
                  !.pixels = [i \in 1..Len(image.pixels) |-> RSub(One, image.pixels[i])]]

\* image_sequence_images of n entries: the image and its complement in turn, so
\* that a sequence of three names one image twice
ImageSequence(image, n) ==
    [i \in 1..n |-> IF i % 2 = 1 THEN image ELSE Complement(image)]

LayerSetups ==
    {[create_layers |-> FALSE, layer_style |-> "stacked", layer_offset |-> Zero]}
    \cup {[create_layers |-> TRUE, layer_style |-> s, layer_offset |-> RInt(o)] :
            s \in {"stacked", "distinct"}, o \in 0..MaxOffset}

Centerings == {"none", "overall", "by_layer"}

\* the properties execute reads; xy_size, instance_spacing and height are left
\* at one value each
Props(source, image, nframes, rows, columns, layers, invert, centering, coloring, mesh) ==
    [row_count |-> rows, column_count |-> columns,
     xy_size |-> One, instance_spacing |-> Zero, mesh_type |-> mesh,
     source_type |-> source, image |-> image,
     image_sequence_images |-> ImageSequence(image, nframes),
     max_freq |-> MaxFreq, random_layer_count |-> nframes,
     height |-> One, invert_heights |-> invert,
     create_layers |-> layers.create_layers, layer_style |-> layers.layer_style,
     layer_offset |-> layers.layer_offset, centering |-> centering,
     coloring_type |-> coloring,
     linear_min_color |-> linear_min_color, linear_max_color |-> linear_max_color]

\* The scene before "Generate Mesh" is pressed.  An image is selected and the
\* grid is no finer than the image (rows <= height, columns <= width).  Block
\* meshes coloured from the source take every combination of the other
\* properties; the other colourings, mesh types and sources take the
\* combinations that reach their own code.
PropsBlock(image, rows, columns, layers) ==
    {Props("image", image, 1, rows, columns, layers, invert, centering,
           "from_source", "block") :
        invert \in BOOLEAN, centering \in Centerings}

\* the layer setups the other families take: no layers, and stacked layers
\* with no offset
Plain(layers) == layers.layer_style = "stacked" /\ layers.layer_offset = Zero

PropsColoring(image, rows, columns, layers) ==
    IF ~Plain(layers) THEN {}
    ELSE {Props("image", image, 1, rows, columns, layers, FALSE, "none", coloring,
                "block") :
             coloring \in {"linear", "random"}}

PropsMesh(image, rows, columns, layers) ==
    IF ~Plain(layers) THEN {}
    ELSE {Props("image", image, 1, rows, columns, layers, FALSE, "none",
                "from_source", mesh) :
             mesh \in {"point", "object"}}

PropsSequence(image, rows, columns, layers) ==
    IF ~Plain(layers) THEN {}
    ELSE {Props("image_sequence", image, n, rows, columns, layers, invert, "overall",
                "from_source", "block") :
             n \in {0} \cup 2..MaxFrames, invert \in BOOLEAN}

PropsOther(image, rows, columns, layers) ==
    IF ~Plain(layers) \/ \E k \in DOMAIN image.pixels : image.pixels[k] # Zero THEN {}
    ELSE {Props(source, image, n, rows, columns, layers, FALSE, "none",
                "from_source", "block") :
             source \in {"random", "audio"},
             n \in {k \in 1..MaxFrames : rows * columns * k <= MaxPixels}}

Init ==
    /\ \E image \in Images :
       \E rows \in 1..image.height, columns \in 1..image.width :
       \E layers \in LayerSetups :
          props \in PropsBlock(image, rows, columns, layers)
                        \cup PropsColoring(image, rows, columns, layers)
                        \cup PropsMesh(image, rows, columns, layers)
                        \cup PropsSequence(image, rows, columns, layers)
                        \cup PropsOther(image, rows, columns, layers)
    /\ CACHE = <<>>
    /\ decoded = <<>>
    /\ frames = <<>>
    /\ verts = <<>>
    /\ faces = <<>>
    /\ vertex_layer = <<>>
    /\ pc = "source"
    /\ err = "none"

\* execute's locals
max_value == IF props.source_type = "audio" THEN props.max_freq ELSE props.image.channels
height_factor == RDiv(props.height, RInt(max_value))
adjusted_layer_offset == RDiv(props.layer_offset, height_factor)

Raise(e) == /\ pc' = "failed"
            /\ err' = e

Goto(stage) == /\ pc' = stage
               /\ err' = "none"

\* lines 105-109: the cache after collect_image_data has run on an image
CachedRefreshed(cache, image) ==
    [n \in DOMAIN cache \cup {image.name} |->
        IF n = image.name THEN image.pixels ELSE cache[n]]
Cached(cache, image) ==
    IF image.name \in DOMAIN cache THEN cache
    ELSE [n \in DOMAIN cache \cup {image.name} |->
             IF n = image.name THEN image.pixels ELSE cache[n]]

\* the cache after the first k images of a list
RECURSIVE CacheAfter(_, _, _)
CacheAfter(cache, images, k) ==
    IF k = 0 THEN cache ELSE Cached(CacheAfter(cache, images, k - 1), images[k])

\* line 108: list(image.pixels) runs in the else branch only
Decoded(log, cache, image) ==
    IF image.name \in DOMAIN cache THEN log ELSE Append(log, image.name)

\* the decodes after the first k images of a list
RECURSIVE DecodedAfter(_, _, _, _)
DecodedAfter(log, cache, images, k) ==
    IF k = 0 THEN log
    ELSE Decoded(DecodedAfter(log, cache, images, k - 1),
                 CacheAfter(cache, images, k - 1), images[k])

\* lines 646-653: the images execute samples, in order
SourceImages ==
    IF props.source_type = "image" THEN <<props.image>>
    ELSE IF props.source_type = "image_sequence" THEN props.image_sequence_images
    ELSE <<>>

\* one frame per image, up to the first that raises
Sampled(images) ==
    LET got == [k \in 1..Len(images) |->
                   collect_image_data(images[k],
                       CacheAfter(CACHE, images, k)[images[k].name],
                       props.row_count, props.column_count, props.create_layers)]
        bad == {k \in 1..Len(images) : got[k].err # "none"}
        n == IF bad = {} THEN Len(images)
             ELSE (CHOOSE k \in bad : \A j \in bad : k <= j) - 1
    IN  [err |-> IF bad = {} THEN "none" ELSE "IndexError",
         cache |-> CacheAfter(CACHE, images, IF bad = {} THEN n ELSE n + 1),
         decoded |-> DecodedAfter(decoded, CACHE, images,
                                  IF bad = {} THEN n ELSE n + 1),
         frames |-> [k \in 1..n |-> [colors |-> got[k].colors,
                                     heights |-> got[k].heights]]]

\* lines 657-659: frames.append([[], heights]) with random heights
RandomFrames ==
    {<< [colors |-> <<>>, heights |-> h] >> :
        h \in RandomFields(props.row_count, props.column_count,
                           props.random_layer_count)}

\* line 661: len(frames[0][0][0][0])
LoggingError(fs) ==
    IF Len(fs) = 0 \/ Len(fs[1].colors) = 0 THEN "IndexError"
    ELSE IF Len(fs[1].colors[1]) = 0 THEN "IndexError"
    ELSE "none"

\* lines 645-662
Source ==
    /\ pc = "source"
    /\ \E fs \in IF props.source_type = "random" THEN RandomFrames
                 ELSE {Sampled(SourceImages).frames} :
          /\ frames' = fs
          /\ CACHE' = Sampled(SourceImages).cache
          /\ decoded' = Sampled(SourceImages).decoded
          /\ IF Sampled(SourceImages).err # "none"
             THEN Raise(Sampled(SourceImages).err)
             ELSE IF LoggingError(fs) # "none"
             THEN Raise(LoggingError(fs))
             ELSE Goto("scaling")
    /\ UNCHANGED <<props, verts, faces, vertex_layer>>

\* lines 664-672
Scaling ==
    /\ pc = "scaling"
    /\ IF props.invert_heights
       THEN LET got == invert_all_heights(frames, RInt(max_value), props.row_count,
                                          props.column_count)
            IN  /\ frames' = got.frames
                /\ IF got.err # "none" THEN Raise(got.err) ELSE Goto("layers")
       ELSE /\ frames' = frames
            /\ Goto("layers")
    /\ UNCHANGED <<props, CACHE, decoded, verts, faces, vertex_layer>>

\* the layer builder execute picks for every frame
LayerHeights(heights) ==
    IF props.create_layers
    THEN IF props.layer_style = "stacked"
         THEN generate_stacked_layer_heights(heights, adjusted_layer_offset)
         ELSE generate_distinct_layer_heights(heights, adjusted_layer_offset)
    ELSE generate_stacked_layer_heights(heights, Zero)

\* lines 674-686
Layers ==
    /\ pc = "layers"
    /\ LET got == [f \in 1..Len(frames) |-> LayerHeights(frames[f].heights)]
           bad == {f \in 1..Len(frames) : got[f].err # "none"}
       IN  IF bad = {}
           THEN /\ frames' = [f \in 1..Len(frames) |->
                                 [frames[f] EXCEPT !.heights = got[f].heights]]
                /\ Goto("centering")
           ELSE LET first == CHOOSE f \in bad : \A g \in bad : f <= g
                IN  /\ frames' = [f \in 1..Len(frames) |->
                                     IF f < first
                                     THEN [frames[f] EXCEPT !.heights = got[f].heights]
                                     ELSE frames[f]]
                    /\ Raise(got[first].err)
    /\ UNCHANGED <<props, CACHE, decoded, verts, faces, vertex_layer>>

\* the centering execute applies to one frame's heights
Centered(heights) ==
    IF props.centering = "overall" THEN center_layer_heights_overall(heights)
    ELSE IF props.centering = "by_layer" THEN center_layer_heights_by_layer(heights)
    ELSE heights

\* lines 688-692
Centering ==
    /\ pc = "centering"
    /\ frames' = [f \in 1..Len(frames) |->
                     [frames[f] EXCEPT !.heights = Centered(@)]]
    /\ Goto("coloring")
    /\ UNCHANGED <<props, CACHE, decoded, verts, faces, vertex_layer>>

\* max_height = 1 if props.create_layers else 4
LinearMaxHeight == IF props.create_layers THEN One ELSE RInt(RGBA)

\* lines 694-706
Coloring ==
    /\ pc = "coloring"
    /\ IF props.coloring_type = "linear"
       THEN LET got == [f \in 1..Len(frames) |->
                          generate_linear_colors(Len(frames[f].heights), props.row_count,
                              props.column_count, frames[f].heights,
                              props.linear_min_color, props.linear_max_color,
                              Zero, LinearMaxHeight)]
                bad == {f \in 1..Len(frames) : got[f].err # "none"}
            IN  IF bad = {}
                THEN /\ frames' = [f \in 1..Len(frames) |->
                                      [frames[f] EXCEPT !.colors = got[f].colors]]
                     /\ Goto("mesh")
                ELSE LET first == CHOOSE f \in bad : \A g \in bad : f <= g
                     IN  /\ frames' = [f \in 1..Len(frames) |->
                                          IF f < first
                                          THEN [frames[f] EXCEPT !.colors = got[f].colors]
                                          ELSE frames[f]]
                         /\ Raise(got[first].err)
       ELSE /\ frames' = frames
            /\ Goto("mesh")
    /\ UNCHANGED <<props, CACHE, decoded, verts, faces, vertex_layer>>

\* line 712: frames[0][1], the height field the geometry is built from
GeometryHeightsLast == frames[Len(frames)].heights
GeometryHeights == frames[1].heights

\* lines 708-729: the geometry, the mesh built from it and its colour layer
Mesh ==
    /\ pc = "mesh"
    /\ LET got == IF props.mesh_type = "block"
                  THEN create_block_geometry(GeometryHeights, height_factor,
                           props.xy_size, props.instance_spacing,
                           props.row_count, props.column_count)
                  ELSE [verts |-> <<>>, faces |-> <<>>]
       IN  /\ verts' = got.verts
           /\ faces' = got.faces
           /\ vertex_layer' = NewVertexLayer(got.faces)
    /\ Goto("colors")
    /\ UNCHANGED <<props, CACHE, decoded, frames>>

\* for f in faces: vertex_face_count += len(f)
VertexFaceCount == 4 * Len(faces)

\* lines 731-742
ApplyColors ==
    /\ pc = "colors"
    /\ LET got == IF props.mesh_type = "point"
                  THEN color_vertex_layer(vertex_layer, frames[1].colors,
                           props.row_count - 1, props.column_count - 1, 4)
                  ELSE IF props.mesh_type = "block"
                  THEN color_vertex_layer(vertex_layer, frames[1].colors,
                           props.row_count, props.column_count, 24)
                  ELSE color_vertex_layer(vertex_layer, frames[1].colors,
                           props.row_count, props.column_count, VertexFaceCount)
       IN  /\ vertex_layer' = got.vertex_layer
           /\ IF got.err # "none" THEN Raise(got.err) ELSE Goto("finished")
    /\ UNCHANGED <<props, CACHE, decoded, frames, verts, faces>>

Next ==
    \/ Source
    \/ Scaling
    \/ Layers
    \/ Centering
    \/ Coloring
    \/ Mesh
    \/ ApplyColors

Spec == Init /\ [][Next]_vars

\* ============================================================ properties

ImageSourced == props.source_type \in {"image", "image_sequence"}

\* a field of exactly nl layers, each of nr rows of nc entries
HasShape(field, nl, nr, nc) ==
    /\ Len(field) = nl
    /\ \A l \in 1..Len(field) :
          /\ Len(field[l]) = nr
          /\ \A r \in 1..Len(field[l]) : Len(field[l][r]) = nc

\* C1: for rows <= height and columns <= width, collect_image_data returns for
\* every image a colour field and a height field of `channels` layers when
\* multiple_layers is set and of 1 layer otherwise, every layer of exactly
\* `rows` rows of exactly `columns` entries, divisible or not; no sample raises.
C1_SamplerShape ==
    (ImageSourced /\ pc # "source") =>
        /\ Len(frames) = Len(SourceImages)
        /\ \A f \in 1..Len(frames) :
              LET nl == IF props.create_layers THEN SourceImages[f].channels ELSE 1
              IN  /\ HasShape(frames[f].colors, nl, props.row_count, props.column_count)
                  /\ HasShape(frames[f].heights, nl, props.row_count, props.column_count)

\* C1 witness: layers split per channel, sampled from an image whose height is
\* not divisible by rows
C1_Witness ==
    /\ pc = "scaling"
    /\ props.source_type = "image"
    /\ props.create_layers
    /\ props.image.height % props.row_count # 0
    /\ Len(frames[1].heights) = props.image.channels
    /\ Len(frames[1].heights[1]) = props.row_count

\* the offset execute hands to the layer builder
LayerOffsetUsed == IF props.create_layers THEN adjusted_layer_offset ELSE Zero

StackedUsed == ~props.create_layers \/ props.layer_style = "stacked"

\* the greatest value of a layer of scalar magnitudes
MaxOfLayer(layer) ==
    LET vals == {layer[r][c] : r \in 1..Len(layer), c \in 1..Len(layer[1])}
    IN  CHOOSE m \in vals : \A v \in vals : RLe(v, m)

\* C2: generate_stacked_layer_heights(field, offset) on a field with at least one
\* layer gives, at every (row, col), baseZ(layer 0) = 0 and
\* baseZ(layer l) = baseZ(layer l-1) + height(layer l-1) + offset for l >= 1;
\* the offset is 0 whenever layering is disabled; every cell's height is its
\* input magnitude.
C2_StackedHeights ==
    [][(pc = "layers" /\ StackedUsed /\ Len(frames) > 0) =>
        /\ pc' = "centering"
        /\ ~props.create_layers => LayerOffsetUsed = Zero
        /\ \A f \in 1..Len(frames) :
              LET before == frames[f].heights
                  after == frames'[f].heights
              IN  /\ HasShape(after, Len(before), Len(before[1]), Len(before[1][1]))
                  /\ \A l \in 1..Len(before), r \in 1..Len(before[1]),
                        c \in 1..Len(before[1][1]) :
                        /\ after[l][r][c].h = before[l][r][c]
                        /\ after[l][r][c].z =
                              IF l = 1 THEN Zero
                              ELSE RAdd(RAdd(after[l - 1][r][c].z, after[l - 1][r][c].h),
                                        LayerOffsetUsed)
    ]_vars

\* C2 witness: two stacked layers with a non-zero offset, the second resting on a
\* first of non-zero height
C2_Witness ==
    /\ pc = "centering"
    /\ props.create_layers /\ props.layer_style = "stacked"
    /\ props.layer_offset # Zero
    /\ Len(frames[1].heights) >= 2
    /\ frames[1].heights[1][1][1].h # Zero
    /\ frames[1].heights[2][1][1].z =
          RAdd(frames[1].heights[1][1][1].h, adjusted_layer_offset)

DistinctUsed == props.create_layers /\ props.layer_style = "distinct"

\* C3 as claimed: after generate_distinct_layer_heights(field, offset) all cells of
\* a layer share one baseZ, baseZ(layer 0) = 0 and, for every l >= 1,
\* baseZ(layer l) = max(magnitude of layer l-1) + offset, whatever the layers
\* before l-1 hold.
C3_DistinctFromPreviousOnly ==
    [][(pc = "layers" /\ DistinctUsed) =>
        \A f \in 1..Len(frames) :
            LET before == frames[f].heights
                after == frames'[f].heights
            IN  \A l \in 1..Len(before), r \in 1..Len(before[1]),
                   c \in 1..Len(before[1][1]) :
                   after[l][r][c].z =
                       IF l = 1 THEN Zero
                       ELSE RAdd(MaxOfLayer(before[l - 1]), adjusted_layer_offset)
    ]_vars

\* C3 as amended: all cells of a layer share one baseZ, baseZ(layer 0) = 0 and,
\* for every l >= 1, baseZ(layer l) = baseZ(layer l-1) + max(magnitude of layer
\* l-1) + offset: the bases accumulate over all the layers below.
C3_DistinctAccumulates ==
    [][(pc = "layers" /\ DistinctUsed) =>
        /\ pc' = "centering"
        /\ \A f \in 1..Len(frames) :
              LET before == frames[f].heights
                  after == frames'[f].heights
              IN  /\ HasShape(after, Len(before), Len(before[1]), Len(before[1][1]))
                  /\ \A l \in 1..Len(before), r \in 1..Len(before[1]),
                        c \in 1..Len(before[1][1]) :
                        /\ after[l][r][c].z = after[l][1][1].z
                        /\ after[l][r][c].z =
                              IF l = 1 THEN Zero
                              ELSE RAdd(RAdd(after[l - 1][1][1].z,
                                             MaxOfLayer(before[l - 1])),
                                        adjusted_layer_offset)
    ]_vars

\* C3 witness: three distinct layers, the second already above zero
C3_Witness ==
    /\ pc = "centering"
    /\ DistinctUsed
    /\ Len(frames[1].heights) >= 3
    /\ frames[1].heights[2][1][1].z # Zero
    /\ frames[1].heights[3][1][1].z # frames[1].heights[2][1][1].z

\* the geometry stage has run, in block mode
BlocksBuilt == props.mesh_type = "block" /\ pc \in {"colors", "finished"}

\* the number of cells of frame 0's height field
CellCount ==
    Len(frames[1].heights) * props.row_count * props.column_count

\* C4: for a height field of L layers of R rows and C columns, and dims = (R, C),
\* create_block_geometry returns exactly 8*L*R*C vertices and 6*L*R*C faces;
\* every face has 4 pairwise distinct indices, each >= 0 and < 8*L*R*C; the 6
\* faces of the k-th block use only the vertices 8k .. 8k+7.
C4_BlockGeometry ==
    BlocksBuilt =>
        /\ HasShape(frames[1].heights, Len(frames[1].heights), props.row_count,
                    props.column_count)
        /\ Len(verts) = 8 * CellCount
        /\ Len(faces) = 6 * CellCount
        /\ \A i \in 1..Len(faces) :
              /\ Len(faces[i]) = 4
              /\ Cardinality({faces[i][j] : j \in 1..4}) = 4
              /\ \A j \in 1..4 :
                    /\ faces[i][j] >= 0
                    /\ faces[i][j] < 8 * CellCount
                    /\ faces[i][j] \in (8 * ((i - 1) \div 6))..(8 * ((i - 1) \div 6) + 7)

\* C4 witness: blocks of two or more layers of two or more cells each
C4_Witness ==
    /\ BlocksBuilt
    /\ Len(frames[1].heights) >= 2
    /\ props.row_count * props.column_count >= 2
    /\ Len(verts) = 8 * CellCount
    /\ Len(faces) >= 24

\* color_vertex_layer has run, in block mode
BlocksColored ==
    /\ props.mesh_type = "block"
    /\ pc \in {"finished", "failed"}
    /\ Len(verts) > 0

\* where create_block_geometry puts the first vertex of the block of cell (l, r, c)
\* (0-based) of frame 0
BlockOrigin(l, r, c) ==
    << RAdd(GridStart(props.column_count, props.xy_size, props.instance_spacing),
            RMul(RInt(c), RAdd(props.xy_size, props.instance_spacing))),
       RAdd(GridStart(props.row_count, props.xy_size, props.instance_spacing),
            RMul(RInt(r), RAdd(props.xy_size, props.instance_spacing))),
       RMul(frames[1].heights[l + 1][r + 1][c + 1].z, height_factor) >>

\* C5: in block mode colours and blocks follow the same cell order (layer, then
\* row, then column): color_vertex_layer writes exactly L*R*C runs of 24
\* consecutive entries, the k-th run, k = (l*R + r)*C + c, all of the colour of
\* cell (l, r, c), whose block is the k-th that create_block_geometry emitted
\* (vertices 8k..8k+7, faces 6k..6k+5); the runs cover the 4 corners of each of
\* the 6*L*R*C faces, leave no entry unwritten and reach no index past the end.
C5_ColorOrderMatchesGeometry ==
    BlocksColored =>
        LET colors == frames[1].colors
            L == Len(frames[1].heights)
            R == props.row_count
            C == props.column_count
        IN  /\ pc = "finished"
            /\ HasShape(colors, L, R, C)
            /\ Len(vertex_layer) = 24 * L * R * C
            /\ Len(vertex_layer) = 4 * Len(faces)
            /\ \A i \in 1..Len(vertex_layer) : vertex_layer[i].run = (i - 1) \div 24
            /\ \A l \in 0..(L - 1), r \in 0..(R - 1), c \in 0..(C - 1) :
                  LET k == (l * R + r) * C + c
                  IN  /\ \A i \in (24 * k + 1)..(24 * k + 24) :
                            vertex_layer[i].color = colors[l + 1][r + 1][c + 1]
                      /\ verts[8 * k + 1] = BlockOrigin(l, r, c)
                      /\ \A i \in (6 * k + 1)..(6 * k + 6), j \in 1..4 :
                            faces[i][j] \in (8 * k)..(8 * k + 7)

\* C5 witness: a coloured 2 x 2 grid whose second and third cell differ in colour
C5_Witness ==
    /\ BlocksColored
    /\ pc = "finished"
    /\ props.row_count = 2 /\ props.column_count = 2
    /\ frames[1].colors[1][1][2] # frames[1].colors[1][2][1]
    /\ vertex_layer[25].color = frames[1].colors[1][1][2]
    /\ vertex_layer[49].color = frames[1].colors[1][2][1]

\* the cells of a field, as (l, r, c) with Python's 0-based indices + 1
Cells(field) ==
    {lrc \in (1..Len(field)) \X (1..Len(field[1])) \X (1..Len(field[1][1])) : TRUE}

\* C6: center_layer_heights_overall lowers, at every (row, col), the baseZ of
\* every layer by exactly top/2, top = baseZ(lastLayer) + height(lastLayer) of
\* that cell before the call, whatever the other cells hold; so where the bottom
\* layer's baseZ was 0 before the call,
\* baseZ(layer 0) + (baseZ(lastLayer) + height(lastLayer)) = 0 after it.
C6_OverallCentering ==
    [][(pc = "centering" /\ props.centering = "overall") =>
        /\ pc' = "coloring"
        /\ \A f \in 1..Len(frames) :
              LET before == frames[f].heights
                  after == frames'[f].heights
                  last == Len(before)
              IN  /\ HasShape(after, Len(before), Len(before[1]), Len(before[1][1]))
                  /\ \A x \in Cells(before) :
                        LET l == x[1]
                            r == x[2]
                            c == x[3]
                            top == RAdd(before[last][r][c].z, before[last][r][c].h)
                        IN  /\ RAdd(after[l][r][c].z, RDiv(top, RInt(2)))
                                = before[l][r][c].z
                            /\ before[1][r][c].z = Zero =>
                                  RAdd(after[1][r][c].z,
                                       RAdd(after[last][r][c].z, after[last][r][c].h))
                                    = Zero
    ]_vars

\* C6 witness: two layers centred overall, two neighbouring cells shifted by
\* different amounts
C6_Witness ==
    /\ pc = "coloring"
    /\ props.centering = "overall"
    /\ Len(frames[1].heights) >= 2
    /\ props.column_count >= 2
    /\ RLt(frames[1].heights[1][1][1].z, Zero)
    /\ frames[1].heights[1][1][1].z # frames[1].heights[1][1][2].z
    /\ frames[1].heights[2][1][1].z # frames[1].heights[1][1][1].z

\* the average of baseZ + height/2 over the cells of a layer
LayerMiddle(layer) ==
    LET n == Len(layer) * Len(layer[1])
        mids == [i \in 1..n |->
                    LET cell == layer[((i - 1) \div Len(layer[1])) + 1]
                                     [((i - 1) % Len(layer[1])) + 1]
                    IN  RAdd(cell.z, RDiv(cell.h, RInt(2)))]
    IN  RDiv(SumSeq(mids), RInt(n))

HeightsKept(before, after) ==
    /\ HasShape(after, Len(before), Len(before[1]), Len(before[1][1]))
    /\ \A x \in Cells(before) : after[x[1]][x[2]][x[3]].h = before[x[1]][x[2]][x[3]].h

OrderKept(before, after) ==
    \A x \in Cells(before) : \A m \in 1..Len(before) :
        (x[1] < m /\ RLe(before[x[1]][x[2]][x[3]].z, before[m][x[2]][x[3]].z))
            => RLe(after[x[1]][x[2]][x[3]].z, after[m][x[2]][x[3]].z)

ByLayerFormula(before, after) ==
    \A x \in Cells(before) :
        after[x[1]][x[2]][x[3]].z =
            RSub(LayerMiddle(before[x[1]]), RDiv(before[x[1]][x[2]][x[3]].h, RInt(2)))

\* C7 as claimed: every centering policy (None, Overall, Per-layer) leaves every
\* cell's height unchanged and keeps the layer order (baseZ(l) <= baseZ(m) before
\* implies the same after, for l < m at one (row, col)); Per-layer sets each
\* baseZ to (average of baseZ + height/2 over the layer) - height/2.
C7_CenteringKeepsOrder ==
    [][pc = "centering" =>
        \A f \in 1..Len(frames) :
            /\ HeightsKept(frames[f].heights, frames'[f].heights)
            /\ OrderKept(frames[f].heights, frames'[f].heights)
            /\ props.centering = "by_layer" =>
                  ByLayerFormula(frames[f].heights, frames'[f].heights)
    ]_vars

\* C7 as amended: every centering policy leaves every cell's height unchanged;
\* None and Overall keep the layer order; Per-layer sets each baseZ to (average
\* of baseZ + height/2 over the layer) - height/2, which may reverse the order of
\* two layers at a cell.
C7_CenteringAmended ==
    [][pc = "centering" =>
        /\ pc' = "coloring"
        /\ \A f \in 1..Len(frames) :
              /\ HeightsKept(frames[f].heights, frames'[f].heights)
              /\ props.centering # "by_layer" =>
                    OrderKept(frames[f].heights, frames'[f].heights)
              /\ props.centering = "by_layer" =>
                    ByLayerFormula(frames[f].heights, frames'[f].heights)
              /\ props.centering = "none" => frames'[f].heights = frames[f].heights
    ]_vars

\* C7 witness: two layers of two cells centred per layer, a cell of non-zero
\* height moved
C7_Witness ==
    /\ pc = "coloring"
    /\ props.centering = "by_layer"
    /\ Len(frames[1].heights) >= 2
    /\ props.row_count * props.column_count >= 2
    /\ frames[1].heights[2][1][1].h # Zero
    /\ RLt(frames[1].heights[2][1][1].z, frames[1].heights[1][1][1].z)

\* the colour stage has run with the Linear policy
LinearColored ==
    /\ props.coloring_type = "linear"
    /\ props.source_type = "image"
    /\ pc \in {"mesh", "colors", "finished", "failed"}

\* C8: with the Linear colour policy, in a full invocation, every cell's colour
\* is, per channel, minColor + (height - minBound) * (maxColor - minColor) /
\* (maxBound - minBound) of that cell's own scalar height, minBound = 0 and
\* maxBound = 1 if layering is enabled and 4 otherwise; the value fed to the
\* formula is the cell's height, not its (baseZ, height) pair nor its baseZ.
C8_LinearFromHeight ==
    LinearColored =>
        /\ err = "none"
        /\ \A f \in 1..Len(frames) :
              /\ HasShape(frames[f].colors, Len(frames[f].heights), props.row_count,
                          props.column_count)
              /\ \A x \in Cells(frames[f].heights) : \A i \in 1..RGBA :
                    frames[f].colors[x[1]][x[2]][x[3]][i] =
                        RAdd(props.linear_min_color[i],
                             RDiv(RMul(RSub(HeightOf(frames[f].heights[x[1]][x[2]][x[3]]),
                                            Zero),
                                       RSub(props.linear_max_color[i],
                                            props.linear_min_color[i])),
                                  RSub(IF props.create_layers THEN One ELSE RInt(4),
                                       Zero)))

\* the per-source ceiling the claim names: the channel count when the channels
\* are summed into one layer, 1 when each channel is a layer of its own
ClaimedCeiling == IF props.create_layers THEN One ELSE RInt(props.image.channels)

\* C9: when inversion is enabled, every magnitude m of every cell of every layer
\* of every frame becomes maxPossibleValue - m, maxPossibleValue being the
\* image's channel count in single-layer mode and 1.0 in multi-layer mode.
C9_InvertAgainstCeiling ==
    [][(pc = "scaling" /\ props.invert_heights /\ ImageSourced) =>
        \A f \in 1..Len(frames) :
            /\ HasShape(frames'[f].heights, Len(frames[f].heights), props.row_count,
                        props.column_count)
            /\ \A x \in Cells(frames[f].heights) :
                  frames'[f].heights[x[1]][x[2]][x[3]] =
                      RSub(ClaimedCeiling, frames[f].heights[x[1]][x[2]][x[3]])
    ]_vars

\* the inversion step is behind
AfterInversion == pc \notin {"source", "scaling"} /\ Len(frames) > 0

\* C10: for an image source with pixel values in [0, 1], in every state after
\* the inversion step (inverted or not, one layer or many, stacked or distinct,
\* any centering) the height of every cell is >= 0.
C10_HeightsNonNegative ==
    (ImageSourced /\ AfterInversion) =>
        \A f \in 1..Len(frames) : \A x \in Cells(frames[f].heights) :
            RLe(Zero, HeightOf(frames[f].heights[x[1]][x[2]][x[3]]))

\* C10 witness: an inverted single layer, finished, with a cell of height 0 (all
\* its channels were 1) beside a cell of positive height
C10_Witness ==
    /\ pc = "finished"
    /\ props.source_type = "image"
    /\ props.invert_heights
    /\ ~props.create_layers
    /\ props.image.channels >= 2
    /\ props.column_count >= 2
    /\ frames[1].heights[1][1][1].h = Zero
    /\ RLt(Zero, frames[1].heights[1][1][2].h)

\* ===================================================== the layer builders
\* generate_stacked_layer_heights and generate_distinct_layer_heights called on
\* any field of scalar magnitudes, the field of no layers included: a list of
\* `layer_count` layers of rows x columns values, as create_random_data builds it
\* (layer_count = 0 gives []).  The call is the one the layer stage makes.
InitBuilder ==
    /\ \E layer_count \in 0..MaxPixels, rows \in 1..MaxPixels, columns \in 1..MaxPixels :
       \E layers \in LayerSetups :
          /\ rows * columns <= MaxPixels
          /\ layer_count * rows * columns <= MaxPixels
          /\ \E field \in RandomFields(rows, columns, layer_count) :
                frames = << [colors |-> <<>>, heights |-> field] >>
          /\ props = Props("random",
                           [name |-> "image", width |-> 1, height |-> 1, channels |-> 1,
                            pixels |-> <<Zero>>],
                           layer_count, rows, columns, layers, FALSE, "none",
                           "from_source", "block")
    /\ CACHE = <<>>
    /\ decoded = <<>>
    /\ verts = <<>>
    /\ faces = <<>>
    /\ vertex_layer = <<>>
    /\ pc = "layers"
    /\ err = "none"

SpecBuilder == InitBuilder /\ [][Layers]_vars

\* the builder is about to run on a field of zero layers
EmptyField == pc = "layers" /\ \E f \in 1..Len(frames) : Len(frames[f].heights) = 0

\* C11: the layer height builder, stacked or distinct, rejects a field of zero
\* layers with a ConfigurationError: it never returns normally on it and never
\* fails with another kind of error.
C11_EmptyFieldRejected ==
    [][EmptyField => (pc' = "failed" /\ err' = "ConfigurationError")]_vars

\* ================================================== colour and height fields
\* the dimensions of a field: the length of every row of every layer
Dims(field) == [l \in 1..Len(field) |-> [r \in 1..Len(field[l]) |-> Len(field[l][r])]]

\* frame 0 holds a colour field and a height field of different dimensions
FieldsDisagree == Len(frames) > 0 /\ Dims(frames[1].colors) # Dims(frames[1].heights)

\* C12: if the colour field and the height field of frame 0 disagree in
\* dimensions (the random source gives layer_count height layers and no colour
\* layer, coloured from the source), the invocation fails with a
\* DimensionMismatchError; it never finishes with a mesh whose colours cover
\* none or only part of its cells.
C12_MismatchRejected ==
    FieldsDisagree =>
        /\ pc # "finished"
        /\ pc = "failed" => err = "DimensionMismatchError"

\* ============================================================ one session
\* CACHE is a module global: it lives as long as the add-on is loaded, over
\* every press of "Generate Mesh".  Between two invocations the user may select
\* another image, or the image of a name may have been edited or reloaded (same
\* name, other pixels or another width).
SessionNames == {"image", "image.001"}

SessionImages ==
    UNION {
        {[name |-> nm, width |-> w, height |-> 1, channels |-> 1, pixels |-> p] :
            nm \in SessionNames, p \in [1..w -> PixelLevels]}
        : w \in 1..MaxWidth}

\* one image, or a sequence that starts with the image named "image" (the names
\* of the images of one sequence differ); one grid column per pixel column
SessionProps(image) ==
    {Props("image", image, 1, 1, image.width, layers, FALSE, "none", "from_source",
           "block") : layers \in {s \in LayerSetups : ~s.create_layers}}
    \cup IF image.name # "image" THEN {}
         ELSE {Props("image_sequence", image, n, 1, image.width, layers, FALSE, "none",
                     "from_source", "block") :
                  n \in 2..MaxFrames, layers \in {s \in LayerSetups : ~s.create_layers}}

InitSession ==
    /\ \E image \in SessionImages : props \in SessionProps(image)
    /\ CACHE = <<>>
    /\ decoded = <<>>
    /\ frames = <<>>
    /\ verts = <<>>
    /\ faces = <<>>
    /\ vertex_layer = <<>>
    /\ pc = "source"
    /\ err = "none"

\* execute has returned or raised; the operator is invoked again, on the
\* properties as they are then.  CACHE is kept.
Invoke ==
    /\ pc \in {"finished", "failed"}
    /\ \E image \in SessionImages : props' \in SessionProps(image)
    /\ frames' = <<>>
    /\ verts' = <<>>
    /\ faces' = <<>>
    /\ vertex_layer' = <<>>
    /\ pc' = "source"
    /\ err' = "none"
    /\ UNCHANGED <<CACHE, decoded>>

NextSession ==
    \/ Next
    \/ Invoke

SpecSession == InitSession /\ [][NextSession]_vars

\* what collect_image_data returns for an image when it samples `buffer`
FrameFrom(image, buffer) ==
    LET got == collect_image_data(image, buffer, props.row_count, props.column_count,
                                  props.create_layers)
    IN  [colors |-> got.colors, heights |-> got.heights]

\* C13: over any sequence of collect_image_data calls of one session, the pixels
\* of an image name are decoded at most once: the first call on a name stores
\* the buffer in CACHE, every later call on that name samples the stored buffer
\* and decodes nothing, and no call removes or replaces an entry of CACHE.
C13_DecodedOnce ==
    [][/\ \A n \in DOMAIN CACHE : n \in DOMAIN CACHE' /\ CACHE'[n] = CACHE[n]
       /\ \A i \in 1..Len(decoded') : \A j \in 1..Len(decoded') :
             decoded'[i] = decoded'[j] => i = j
       /\ {decoded'[i] : i \in 1..Len(decoded')} = DOMAIN CACHE'
       /\ pc = "source" =>
             /\ \A k \in 1..Len(SourceImages) :
                   (k <= Len(frames') + 1 /\ SourceImages[k].name \notin DOMAIN CACHE
                    /\ \A j \in 1..(k - 1) : SourceImages[j].name # SourceImages[k].name)
                       => CACHE'[SourceImages[k].name] = SourceImages[k].pixels
             /\ \A k \in 1..Len(frames') :
                   /\ frames'[k] = FrameFrom(SourceImages[k], CACHE'[SourceImages[k].name])
                   /\ SourceImages[k].name \in DOMAIN CACHE =>
                         /\ frames'[k] = FrameFrom(SourceImages[k],
                                                   CACHE[SourceImages[k].name])
                         /\ \A i \in 1..Len(decoded') :
                               decoded'[i] = SourceImages[k].name => i <= Len(decoded)
      ]_vars

\* C13 witness: two names are cached, each decoded once; the image named
\* "image" has other pixels than when it was decoded, and the frame just sampled
\* holds the stored value
C13_Witness ==
    /\ pc = "scaling"
    /\ props.source_type = "image"
    /\ props.image.name = "image"
    /\ Len(decoded) = 2
    /\ CACHE["image"] # props.image.pixels
    /\ frames[1].heights[1][1][1] = CACHE["image"][1]
    /\ frames[1].heights[1][1][1] # props.image.pixels[1]

\* ======================================================== the stage order
\* the stages of execute, in the order of its source text
StageOrder ==
    <<"source", "scaling", "layers", "centering", "coloring", "mesh", "colors",
      "finished">>

StageNumber(stage) == CHOOSE i \in 1..Len(StageOrder) : StageOrder[i] = stage

\* every cell of every frame is a scalar magnitude / a (baseZ, height) pair
AllScalar(fs) ==
    \A f \in 1..Len(fs) : \A l \in 1..Len(fs[f].heights) :
        \A r \in 1..Len(fs[f].heights[l]) : \A c \in 1..Len(fs[f].heights[l][r]) :
            ~IsPair(fs[f].heights[l][r][c])

AllPairs(fs) ==
    \A f \in 1..Len(fs) : \A l \in 1..Len(fs[f].heights) :
        \A r \in 1..Len(fs[f].heights[l]) : \A c \in 1..Len(fs[f].heights[l][r]) :
            IsPair(fs[f].heights[l][r][c])

\* the height of every cell of every frame is the same in fs and gs
SameHeights(fs, gs) ==
    /\ Len(gs) = Len(fs)
    /\ \A f \in 1..Len(fs) :
          /\ Dims(gs[f].heights) = Dims(fs[f].heights)
          /\ \A l \in 1..Len(fs[f].heights) : \A r \in 1..Len(fs[f].heights[l]) :
                \A c \in 1..Len(fs[f].heights[l][r]) :
                    HeightOf(gs[f].heights[l][r][c]) = HeightOf(fs[f].heights[l][r][c])

\* the z coordinates of the k-th (0-based) block of vs are the bottom and the top
\* of the given cell
BlockSpans(vs, k, cell) ==
    /\ \A i \in 1..4 : vs[8 * k + i][3] = RMul(cell.z, height_factor)
    /\ \A i \in 5..8 : vs[8 * k + i][3] = RMul(RAdd(cell.z, cell.h), height_factor)

\* C14: in every invocation of execute the stages run in the order sampling,
\* inversion (if enabled), layer heights, centering, colour generation,
\* geometry, vertex colours.  Inversion works on scalar magnitudes, before any
\* cell is a (baseZ, height) pair; the layer heights are derived exactly once per
\* frame (stacked with offset 0 when layering is disabled); the geometry is built
\* from frame 0 only.
C14_StageOrder ==
    [][/\ pc \in {StageOrder[i] : i \in 1..(Len(StageOrder) - 1)}
       /\ pc' \in {StageOrder[StageNumber(pc) + 1], "failed"}
       /\ pc \in {"source", "scaling", "layers"} => AllScalar(frames)
       /\ pc \in {"centering", "coloring", "mesh", "colors"} =>
             AllPairs(frames) /\ AllPairs(frames')
       /\ pc = "scaling" =>
             /\ AllScalar(frames')
             /\ ~props.invert_heights => frames' = frames
       /\ pc \notin {"source", "scaling"} => SameHeights(frames, frames')
       /\ pc = "layers" =>
             /\ pc' = "centering"
             /\ AllPairs(frames')
             /\ ~props.create_layers =>
                   \A f \in 1..Len(frames) : \A l \in 1..Len(frames[f].heights) :
                      \A r \in 1..Len(frames[f].heights[l]) :
                         \A c \in 1..Len(frames[f].heights[l][r]) :
                            frames'[f].heights[l][r][c].z =
                               IF l = 1 THEN Zero
                               ELSE RAdd(frames'[f].heights[l - 1][r][c].z,
                                         frames'[f].heights[l - 1][r][c].h)
       /\ pc \notin {"source", "scaling", "layers", "centering"} =>
             frames'[1].heights = frames[1].heights
       /\ (pc = "mesh" /\ props.mesh_type = "block") =>
             /\ Len(verts') =
                   8 * Len(frames[1].heights) * props.row_count * props.column_count
             /\ \A l \in 1..Len(frames[1].heights) : \A r \in 1..props.row_count :
                   \A c \in 1..props.column_count :
                      BlockSpans(verts',
                                 ((l - 1) * props.row_count + (r - 1))
                                    * props.column_count + (c - 1),
                                 frames[1].heights[l][r][c])
      ]_vars

\* C14 witness: a finished invocation on a sequence of two images whose heights
\* differ, inverted and centred: the blocks span the cells of frame 0, not those
\* of frame 1
C14_Witness ==
    /\ pc = "finished"
    /\ props.source_type = "image_sequence"
    /\ props.invert_heights
    /\ Len(frames) = 2
    /\ AllPairs(frames)
    /\ frames[1].heights[1][1][1].h # frames[2].heights[1][1][1].h
    /\ BlockSpans(verts, 0, frames[1].heights[1][1][1])
    /\ ~BlockSpans(verts, 0, frames[2].heights[1][1][1])

\* =================================================== the sampler's indices
\* the pixel (all its channels) at 0-based row and column of a flat buffer
PixelAt(image, pixels, row, col) ==
    [ch \in 1..image.channels |->
        pixels[((row * image.width) + col) * image.channels + ch]]

\* C15: for a pixel buffer of width * height * channels values and
\* 1 <= rows <= height, 1 <= columns <= width, every index collect_image_data
\* reads lies inside the buffer (0 <= pos and pos + channels <= size in
\* single-layer mode, pos < size in multi-layer mode), and the sample of grid
\* cell (i, j) is taken from pixel row i * (height // rows) and pixel column
\* j * (width // columns): no sample wraps into a neighbouring pixel row.
C15_SamplesInBuffer ==
    (ImageSourced /\ pc # "source") =>
        /\ Len(frames) = Len(SourceImages)
        /\ \A f \in 1..Len(SourceImages) :
              LET image == SourceImages[f]
                  pixels == CACHE[image.name]
                  size == image.width * image.height * image.channels
                  nl == IF props.create_layers THEN image.channels ELSE 1
              IN  /\ Len(pixels) = size
                  /\ \A l \in 0..(nl - 1) : \A i \in 0..(props.row_count - 1) :
                        \A j \in 0..(props.column_count - 1) :
                        LET row == i * (image.height \div props.row_count)
                            col == j * (image.width \div props.column_count)
                            pos == SamplePos(image,
                                       StepIndex(image.height, props.row_count, i),
                                       StepIndex(image.width, props.column_count, j), l)
                        IN  /\ row < image.height
                            /\ col < image.width
                            /\ pos = ((row * image.width) + col) * image.channels + l
                            /\ pos >= 0
                            /\ IF props.create_layers THEN pos < size
                               ELSE pos + image.channels <= size
                            /\ \A q \in SampleReads(image, pos, props.create_layers) :
                                  q >= 0 /\ q < Len(pixels)
                            /\ pc = "scaling" =>
                                  /\ frames[f].heights[l + 1][i + 1][j + 1] =
                                        IF props.create_layers
                                        THEN PixelAt(image, pixels, row, col)[l + 1]
                                        ELSE SumSeq(PixelAt(image, pixels, row, col))
                                  /\ \A ch \in 1..image.channels :
                                        frames[f].colors[l + 1][i + 1][j + 1][ch] =
                                           IF props.create_layers /\ ch # l + 1 THEN Zero
                                           ELSE PixelAt(image, pixels, row, col)[ch]

\* C15 witness: two columns sampled from a row of three pixels (width is not
\* divisible by columns, the step is 1): the second sample is the middle pixel,
\* which differs from the last
C15_Witness ==
    /\ pc = "scaling"
    /\ props.source_type = "image"
    /\ ~props.create_layers
    /\ props.image.width = 3 /\ props.column_count = 2
    /\ props.image.pixels[2] # props.image.pixels[3]
    /\ frames[1].heights[1][1][2] = props.image.pixels[2]

\* C15 second case, reached beside the witness: the second grid row of a 2 x 2
\* image starts at pixel row 1, index 2 of the buffer
C15_RowWitness ==
    /\ pc = "scaling"
    /\ props.source_type = "image"
    /\ props.image.width = 2 /\ props.image.height = 2
    /\ props.row_count = 2 /\ props.column_count = 2
    /\ props.image.pixels[3] # props.image.pixels[2]
    /\ frames[1].heights[1][2][1] = props.image.pixels[3]

====
